---- MODULE Spec2Model ----
(***************************************************************************)
(* Model of src/main.py: the validation / sanitization helpers             *)
(* (validate_object_id, sanitize_input, is_valid_audio_file,               *)
(* is_valid_image_file) and the request handlers that use them against the *)
(* three collections of the document store (sprites, audio, scores).       *)
(*                                                                         *)
(* Python values are records [type, val]; a str is the sequence of its     *)
(* characters (one-character strings), so that lower(), endswith(),        *)
(* replace() and the hexadecimal parse are computed, not assumed.          *)
(***************************************************************************)
EXTENDS Integers, Sequences, FiniteSets, TLC

VARIABLES
    call,      \* the last call of a pure helper: [fn, arg, ret, exc]
    sprites,   \* db.sprites: set of documents [_id, filename, content]
    audio,     \* db.audio: set of documents [_id, filename, content]
    scores,    \* db.scores: sequence (natural order) of [_id, player_name, score]
    nextOid,   \* number of ObjectIds the store has generated so far
    pending,   \* update_sprite / update_audio requests between find_one and update_one
    last       \* the request completed last, with its inputs and its response

vars == <<call, sprites, audio, scores, nextOid, pending, last>>

(***************************************************************************)
(* Bounds of the model.                                                    *)
(***************************************************************************)
MaxAffix == 1      \* characters put before / after the filler of an id string
MaxTokens == 3     \* tokens concatenated into a sanitizer input
MaxOids == 2       \* ObjectIds the store generates in one behaviour
MaxInflight == 1   \* update requests suspended between find_one and update_one
MaxScoreDocs == 3  \* score documents inserted in one behaviour

(***************************************************************************)
(* Python values.                                                          *)
(***************************************************************************)
PyStr(s) == [type |-> "str", val |-> s]
PyNone == [type |-> "NoneType", val |-> <<>>]
PyInt(digits) == [type |-> "int", val |-> digits]
\* a bytes value, written as the hexadecimal digits of its bytes (two each)
PyBytes(hexdigits) == [type |-> "bytes", val |-> hexdigits]
PyObject == [type |-> "object", val |-> <<>>]
PyBool(b) == [type |-> "bool", val |-> IF b THEN <<"True">> ELSE <<"False">>]
PyTrue == PyBool(TRUE)
PyFalse == PyBool(FALSE)

Rep(c, n) == [i \in 1..n |-> c]

RECURSIVE Concat(_)
Concat(ss) == IF ss = <<>> THEN <<>> ELSE Head(ss) \o Concat(Tail(ss))

SeqsUpTo(S, n) == UNION {[1..k -> S] : k \in 0..n}

(***************************************************************************)
(* Characters.                                                             *)
(***************************************************************************)
Uppers == <<"A","B","C","D","E","F","G","H","I","J","K","L","M",
            "N","O","P","Q","R","S","T","U","V","W","X","Y","Z">>
Lowers == <<"a","b","c","d","e","f","g","h","i","j","k","l","m",
            "n","o","p","q","r","s","t","u","v","w","x","y","z">>
Digits == {"0","1","2","3","4","5","6","7","8","9"}
AsciiWhitespace == {" ", "\t", "\n", "\r", "\f"}

\* the lower-case letter of each upper-case letter
ToLower ==
    [c \in {Uppers[i] : i \in 1..Len(Uppers)} |->
        Lowers[CHOOSE i \in 1..Len(Uppers) : Uppers[i] = c]]

LowerChar(c) == IF c \in DOMAIN ToLower THEN ToLower[c] ELSE c

\* str.lower()
lower(s) == [i \in 1..Len(s) |-> LowerChar(s[i])]

\* str.endswith(suffix)
endswith(s, suffix) ==
    /\ Len(s) >= Len(suffix)
    /\ SubSeq(s, Len(s) - Len(suffix) + 1, Len(s)) = suffix

\* the characters bytes.fromhex accepts as digits
HexChars == Digits \cup {"a","b","c","d","e","f","A","B","C","D","E","F"}

IsHexChar(c) == c \in HexChars

(***************************************************************************)
(* bson.ObjectId(oid), as called on line 23.  An ObjectId holds 12 bytes,  *)
(* written as 24 hexadecimal digits.  The constructor                      *)
(*   - generates a fresh id when oid is None,                              *)
(*   - takes a bytes value of 12 bytes as the id,                          *)
(*   - for a str of 24 characters takes bytes.fromhex(oid), and raises     *)
(*     InvalidId when fromhex raises or the str has another length,        *)
(*   - raises TypeError for every other type.                              *)
(* bytes.fromhex reads pairs of hexadecimal digits and skips ASCII         *)
(* whitespace between pairs (also leading and trailing).                   *)
(***************************************************************************)
OidBytes == 12
OidHexLen == 2 * OidBytes

\* bytes.fromhex from position i on: whitespace is skipped before each byte,
\* and a byte is two hexadecimal digits next to each other
RECURSIVE fromhex_ok(_, _)
fromhex_ok(s, i) ==
    IF i > Len(s) THEN TRUE
    ELSE IF s[i] \in AsciiWhitespace THEN fromhex_ok(s, i + 1)
    ELSE IF i < Len(s) /\ IsHexChar(s[i]) /\ IsHexChar(s[i + 1])
         THEN fromhex_ok(s, i + 2)
         ELSE FALSE

IsHexDigit(c) == c \notin AsciiWhitespace

\* bytes.fromhex(s): [ok, hex], hex the digits of the bytes read, lower case
fromhex(s) ==
    IF fromhex_ok(s, 1)
    THEN [ok |-> TRUE, hex |-> lower(SelectSeq(s, IsHexDigit))]
    ELSE [ok |-> FALSE, hex |-> <<>>]

\* ObjectId(x): [exc, hex]; exc = "none" when an ObjectId is constructed.
\* A generated id (x is None) is opaque: hex is <<"generated">>.
ObjectId(x) ==
    IF x.type = "NoneType" THEN [exc |-> "none", hex |-> <<"generated">>]
    ELSE IF x.type = "bytes" /\ Len(x.val) = OidHexLen
         THEN [exc |-> "none", hex |-> x.val]
    ELSE IF x.type = "str"
         THEN IF Len(x.val) # OidHexLen THEN [exc |-> "InvalidId", hex |-> <<>>]
              ELSE LET b == fromhex(x.val)
                   IN  IF b.ok THEN [exc |-> "none", hex |-> b.hex]
                       ELSE [exc |-> "InvalidId", hex |-> <<>>]
    ELSE [exc |-> "TypeError", hex |-> <<>>]

\* validate_object_id(id_str): [ret, exc].  InvalidId and TypeError are
\* caught and give False; any other exception would propagate.
validate_object_id(id_str) ==
    LET r == ObjectId(id_str)
    IN  IF r.exc = "none" THEN [ret |-> PyTrue, exc |-> "none"]
        ELSE IF r.exc \in {"InvalidId", "TypeError"}
             THEN [ret |-> PyFalse, exc |-> "none"]
        ELSE [ret |-> PyNone, exc |-> r.exc]

(***************************************************************************)
(* sanitize_input.                                                         *)
(***************************************************************************)
dangerous_patterns ==
    << <<"$">>, <<"{">>, <<"}">>, <<".">>,
       <<"$","w","h","e","r","e">>, <<"$","r","e","g","e","x">>,
       <<"$","g","t">>, <<"$","l","t">>, <<"$","g","t","e">>,
       <<"$","l","t","e">>, <<"$","n","e">>, <<"$","n","i","n">>,
       <<"$","a","n","d">>, <<"$","o","r">>, <<"$","n","o","t">>,
       <<"$","n","o","r">> >>

\* the positions at which pattern occurs in s
Occurrences(s, pattern) ==
    {i \in 1..(Len(s) - Len(pattern) + 1) :
        \A k \in 1..Len(pattern) : s[i + k - 1] = pattern[k]}

First(S) == CHOOSE i \in S : \A j \in S : i <= j

\* a variant of str.replace(pattern, "") that removes the first occurrence only
replace_first(s, pattern) ==
    LET found == Occurrences(s, pattern)
    IN  IF found = {} THEN s
        ELSE SubSeq(s, 1, First(found) - 1)
                \o SubSeq(s, First(found) + Len(pattern), Len(s))

\* str.replace(pattern, ""): every non-overlapping occurrence, left to right
RECURSIVE replace(_, _)
replace(s, pattern) ==
    LET found == Occurrences(s, pattern)
    IN  IF found = {} THEN s
        ELSE SubSeq(s, 1, First(found) - 1)
                \o replace(SubSeq(s, First(found) + Len(pattern), Len(s)), pattern)

\* the loop of lines 40-41 over patterns[i..]
RECURSIVE remove_patterns(_, _, _)
remove_patterns(result, patterns, i) ==
    IF i > Len(patterns) THEN result
    ELSE remove_patterns(replace(result, patterns[i]), patterns, i + 1)

sanitize_input(input_str) ==
    IF input_str.type # "str" THEN input_str
    ELSE PyStr(remove_patterns(input_str.val, dangerous_patterns, 1))

(***************************************************************************)
(* The file-type gates.  `not filename` is true of None and of "".         *)
(***************************************************************************)
Falsy(x) == x.type = "NoneType" \/ (x.type = "str" /\ x.val = <<>>)

\* a variant of the audio gate that accepts every non-empty filename
is_valid_audio_file_any(filename) == ~Falsy(filename)

is_valid_audio_file(filename) ==
    IF Falsy(filename) THEN FALSE
    ELSE endswith(lower(filename.val), <<".","m","p","3">>)

\* a variant of the image gate that compares without lower()
is_valid_image_file_cs(filename) ==
    IF Falsy(filename) THEN FALSE
    ELSE \/ endswith(filename.val, <<".","p","n","g">>)
         \/ endswith(filename.val, <<".","j","p","g">>)
         \/ endswith(filename.val, <<".","j","p","e","g">>)

is_valid_image_file(filename) ==
    IF Falsy(filename) THEN FALSE
    ELSE \/ endswith(lower(filename.val), <<".","p","n","g">>)
         \/ endswith(lower(filename.val), <<".","j","p","g">>)
         \/ endswith(lower(filename.val), <<".","j","p","e","g">>)

(***************************************************************************)
(* Inputs of the helpers.                                                  *)
(***************************************************************************)
AffixChars == {"F", "9", "g", " ", "\n"}
Affixes == SeqsUpTo(AffixChars, MaxAffix)
FillChars == {"0", "a"}
FillLens == {0} \cup ((OidHexLen - 2 * MaxAffix - 1)..(OidHexLen + 1))

IdStrings ==
    {pre \o Rep(c, n) \o suf :
        pre \in Affixes, suf \in Affixes, c \in FillChars, n \in FillLens}

NonStrings ==
    {PyNone, PyInt(<<"4","2">>), PyObject,
     PyBytes(Rep("0", OidHexLen)), PyBytes(Rep("0", 10))}

IdArgs == {PyStr(s) : s \in IdStrings} \cup NonStrings

Tokens ==
    { <<"$">>, <<"{">>, <<"}">>, <<".">>,
      <<"$","w","h","e","r","e">>, <<"$","w","h">>, <<"e","r","e">>,
      <<"$","g","t">>, <<"$","n">>, <<"o","r">>, <<"a","_","1">> }

evil_where_png ==
    <<"e","v","i","l","$","w","h","e","r","e",".","p","n","g">>

SanitizeStrings ==
    {Concat(ts) : ts \in SeqsUpTo(Tokens, MaxTokens)} \cup {evil_where_png}

SanitizeArgs == {PyStr(s) : s \in SanitizeStrings} \cup NonStrings

Stems == { <<>>, <<"a">>, <<"s","o","n","g">>, <<"a",".","p","n","g">>,
           <<"x",".","M","p","3">> }
Exts == { <<>>, <<".","p","n","g">>, <<".","P","N","G">>, <<".","P","n","g">>,
          <<".","j","p","g">>, <<".","J","P","G">>, <<".","j","p","e","g">>,
          <<".","J","p","E","G">>, <<".","g","i","f">>, <<".","m","p","3">>,
          <<".","M","P","3">>, <<".","w","a","v">>, <<"p","n","g">>,
          <<".","p","n">>, <<".","m","p","3"," ">>, <<".","m","p","4">> }

FilenameArgs == {PyStr(stem \o ext) : stem \in Stems, ext \in Exts} \cup {PyNone}

(***************************************************************************)
(* The helpers as operations.  A behaviour starts with one call made       *)
(* (function and argument) and not yet evaluated; the action of the        *)
(* function evaluates it.                                                  *)
(***************************************************************************)
Called(f, x) == [fn |-> f, arg |-> x, ret |-> PyNone, exc |-> "none", done |-> FALSE]
NoCall == [fn |-> "none", arg |-> PyNone, ret |-> PyNone, exc |-> "none", done |-> TRUE]

Calls ==
    {Called("validate_object_id", x) : x \in IdArgs}
    \cup {Called("sanitize_input", x) : x \in SanitizeArgs}
    \cup {Called("is_valid_audio_file", x) : x \in FilenameArgs}
    \cup {Called("is_valid_image_file", x) : x \in FilenameArgs}

Returned(f) == call.fn = f /\ call.done

StoreInit ==
    /\ sprites = {}
    /\ audio = {}
    /\ scores = <<>>
    /\ nextOid = 0
    /\ pending = {}

call_validate_object_id ==
    /\ call.fn = "validate_object_id" /\ ~call.done
    /\ LET r == validate_object_id(call.arg)
       IN  call' = [call EXCEPT !.ret = r.ret, !.exc = r.exc, !.done = TRUE]
    /\ UNCHANGED <<sprites, audio, scores, nextOid, pending, last>>

call_sanitize_input ==
    /\ call.fn = "sanitize_input" /\ ~call.done
    /\ call' = [call EXCEPT !.ret = sanitize_input(call.arg), !.done = TRUE]
    /\ UNCHANGED <<sprites, audio, scores, nextOid, pending, last>>

call_is_valid_audio_file ==
    /\ call.fn = "is_valid_audio_file" /\ ~call.done
    /\ call' = [call EXCEPT !.ret = PyBool(is_valid_audio_file(call.arg)),
                            !.done = TRUE]
    /\ UNCHANGED <<sprites, audio, scores, nextOid, pending, last>>

call_is_valid_image_file ==
    /\ call.fn = "is_valid_image_file" /\ ~call.done
    /\ call' = [call EXCEPT !.ret = PyBool(is_valid_image_file(call.arg)),
                            !.done = TRUE]
    /\ UNCHANGED <<sprites, audio, scores, nextOid, pending, last>>

\* the answer of the request completed last: the handler, the status, the
\* detail / message and the data the answer carries
Answer(op, status, detail, body) ==
    [op |-> op, status |-> status, detail |-> detail, body |-> body]

NoRequest == Answer("none", 0, "", <<>>)

InitFn == call \in Calls /\ StoreInit /\ last = NoRequest

NextFn ==
    \/ call_validate_object_id
    \/ call_sanitize_input
    \/ call_is_valid_audio_file
    \/ call_is_valid_image_file

SpecFn == InitFn /\ [][NextFn]_vars

(***************************************************************************)
(* The document store.  An ObjectId is written as its 24 hexadecimal       *)
(* digits; the store generates the ids of inserted documents, each once.   *)
(***************************************************************************)
OidDigits == <<"1","2","3","4","5","6","7","8","9","a","b","c","d","e","f">>

\* the k-th ObjectId the store generates
GenOid(k) == Rep("0", OidHexLen - 1) \o <<OidDigits[k]>>

\* ObjectId(id_str) of a string validate_object_id accepted
OidOf(id_str) == ObjectId(id_str).hex

\* collection.find_one({"_id": oid}): the documents matched (none or one)
find_one(coll, oid) == {d \in coll : d._id = oid}

\* collection.insert_one({"filename": ..., "content": ...})
insert_one(coll, oid, file) ==
    coll \cup {[_id |-> oid, filename |-> file.filename, content |-> file.content]}

\* collection.update_one({"_id": oid}, {"$set": {"filename": ..., "content": ...}})
update_one(coll, oid, file) ==
    {IF d._id = oid
     THEN [d EXCEPT !.filename = file.filename, !.content = file.content]
     ELSE d : d \in coll}

\* collection.delete_one({"_id": oid})
delete_one(coll, oid) == {d \in coll : d._id # oid}

(***************************************************************************)
(* Inputs of the asset handlers.                                           *)
(***************************************************************************)
Files ==
    { [filename |-> PyStr(<<"a",".","P","N","G">>), content |-> "png-bytes"],
      [filename |-> PyStr(<<"b",".","j","p","g">>), content |-> "jpg-bytes"],
      [filename |-> PyStr(<<"s",".","M","P","3">>), content |-> "mp3-bytes"],
      [filename |-> PyStr(<<"a",".","g","i","f">>), content |-> "gif-bytes"],
      [filename |-> PyStr(<<>>), content |-> "raw-bytes"] }

MalformedIds == { Rep("0", OidHexLen - 1) \o <<"g">> }

IdInputs == {PyStr(GenOid(k)) : k \in 1..MaxOids} \cup {PyStr(s) : s \in MalformedIds}

(***************************************************************************)
(* GET /sprite/{sprite_id}, GET /audio/{audio_id}                          *)
(***************************************************************************)
get_sprite(sprite_id) ==
    /\ last' =
         IF validate_object_id(sprite_id).ret # PyTrue
         THEN Answer("get_sprite", 400,
                          "Invalid sprite ID format", <<>>)
         ELSE LET found == find_one(sprites, OidOf(sprite_id))
              IN  IF found # {}
                  THEN Answer("get_sprite", 200, "",
                                   (CHOOSE d \in found : TRUE).filename)
                  ELSE Answer("get_sprite", 404,
                                   "Sprite not found", <<>>)
    /\ UNCHANGED <<call, sprites, audio, scores, nextOid, pending>>

get_audio(audio_id) ==
    /\ last' =
         IF validate_object_id(audio_id).ret # PyTrue
         THEN Answer("get_audio", 400,
                          "Invalid audio ID format", <<>>)
         ELSE LET found == find_one(audio, OidOf(audio_id))
              IN  IF found # {}
                  THEN Answer("get_audio", 200, "",
                                   (CHOOSE d \in found : TRUE).filename)
                  ELSE Answer("get_audio", 404,
                                   "Audio not found", <<>>)
    /\ UNCHANGED <<call, sprites, audio, scores, nextOid, pending>>

(***************************************************************************)
(* POST /upload_sprite, POST /upload_audio                                 *)
(***************************************************************************)
\* a variant of upload_sprite that inserts before it checks the file type
upload_sprite_insert_first(file) ==
    /\ nextOid < MaxOids
    /\ sprites' = insert_one(sprites, GenOid(nextOid + 1), file)
    /\ nextOid' = nextOid + 1
    /\ last' =
         IF ~is_valid_image_file(file.filename)
         THEN Answer("upload_sprite", 400,
                          "Only PNG and JPG/JPEG files are allowed", <<>>)
         ELSE Answer("upload_sprite", 200,
                          "Sprite uploaded", GenOid(nextOid + 1))
    /\ UNCHANGED <<call, audio, scores, pending>>

upload_sprite(file) ==
    IF ~is_valid_image_file(file.filename)
    THEN /\ last' = Answer("upload_sprite", 400,
                                "Only PNG and JPG/JPEG files are allowed", <<>>)
         /\ UNCHANGED <<call, sprites, audio, scores, nextOid, pending>>
    ELSE /\ nextOid < MaxOids
         /\ sprites' = insert_one(sprites, GenOid(nextOid + 1), file)
         /\ nextOid' = nextOid + 1
         /\ last' = Answer("upload_sprite", 200,
                                "Sprite uploaded", GenOid(nextOid + 1))
         /\ UNCHANGED <<call, audio, scores, pending>>

upload_audio(file) ==
    IF ~is_valid_audio_file(file.filename)
    THEN /\ last' = Answer("upload_audio", 400,
                                "Only MP3 files are allowed", <<>>)
         /\ UNCHANGED <<call, sprites, audio, scores, nextOid, pending>>
    ELSE /\ nextOid < MaxOids
         /\ audio' = insert_one(audio, GenOid(nextOid + 1), file)
         /\ nextOid' = nextOid + 1
         /\ last' = Answer("upload_audio", 200,
                                "Audio file uploaded", GenOid(nextOid + 1))
         /\ UNCHANGED <<call, sprites, scores, pending>>

(***************************************************************************)
(* PUT /sprite/{sprite_id}, PUT /audio/{audio_id}.  The handler awaits     *)
(* find_one and then update_one: other requests run between the two.       *)
(***************************************************************************)
\* lines 240-251: the checks and the existence check
update_sprite_find(sprite_id, file) ==
    IF validate_object_id(sprite_id).ret # PyTrue
    THEN /\ last' = Answer("update_sprite", 400,
                                "Invalid sprite ID format", <<>>)
         /\ UNCHANGED <<call, sprites, audio, scores, nextOid, pending>>
    ELSE IF ~is_valid_image_file(file.filename)
    THEN /\ last' = Answer("update_sprite", 400,
                                "Only PNG and JPG/JPEG files are allowed", <<>>)
         /\ UNCHANGED <<call, sprites, audio, scores, nextOid, pending>>
    ELSE IF find_one(sprites, OidOf(sprite_id)) = {}
    THEN /\ last' = Answer("update_sprite", 404,
                                "Sprite not found", <<>>)
         /\ UNCHANGED <<call, sprites, audio, scores, nextOid, pending>>
    ELSE /\ Cardinality(pending) < MaxInflight
         /\ [op |-> "update_sprite", id |-> sprite_id, file |-> file] \notin pending
         /\ pending' = pending \cup {[op |-> "update_sprite", id |-> sprite_id, file |-> file]}
         /\ UNCHANGED <<call, sprites, audio, scores, nextOid, last>>

\* lines 253-260: update_one, whose result is not looked at, and the answer
update_sprite_write(r) ==
    /\ r \in pending /\ r.op = "update_sprite"
    /\ sprites' = update_one(sprites, OidOf(r.id), r.file)
    /\ pending' = pending \ {r}
    /\ last' = Answer("update_sprite", 200, "Sprite updated", <<>>)
    /\ UNCHANGED <<call, audio, scores, nextOid>>

\* lines 272-283
update_audio_find(audio_id, file) ==
    IF validate_object_id(audio_id).ret # PyTrue
    THEN /\ last' = Answer("update_audio", 400,
                                "Invalid audio ID format", <<>>)
         /\ UNCHANGED <<call, sprites, audio, scores, nextOid, pending>>
    ELSE IF ~is_valid_audio_file(file.filename)
    THEN /\ last' = Answer("update_audio", 400,
                                "Only MP3 files are allowed", <<>>)
         /\ UNCHANGED <<call, sprites, audio, scores, nextOid, pending>>
    ELSE IF find_one(audio, OidOf(audio_id)) = {}
    THEN /\ last' = Answer("update_audio", 404,
                                "Audio not found", <<>>)
         /\ UNCHANGED <<call, sprites, audio, scores, nextOid, pending>>
    ELSE /\ Cardinality(pending) < MaxInflight
         /\ [op |-> "update_audio", id |-> audio_id, file |-> file] \notin pending
         /\ pending' = pending \cup {[op |-> "update_audio", id |-> audio_id, file |-> file]}
         /\ UNCHANGED <<call, sprites, audio, scores, nextOid, last>>

\* lines 285-292
update_audio_write(r) ==
    /\ r \in pending /\ r.op = "update_audio"
    /\ audio' = update_one(audio, OidOf(r.id), r.file)
    /\ pending' = pending \ {r}
    /\ last' = Answer("update_audio", 200, "Audio updated", <<>>)
    /\ UNCHANGED <<call, sprites, scores, nextOid>>

(***************************************************************************)
(* DELETE /sprite/{sprite_id}, DELETE /audio/{audio_id}                    *)
(***************************************************************************)
delete_sprite(sprite_id) ==
    IF validate_object_id(sprite_id).ret # PyTrue
    THEN /\ last' = Answer("delete_sprite", 400,
                                "Invalid sprite ID format", <<>>)
         /\ UNCHANGED <<call, sprites, audio, scores, nextOid, pending>>
    ELSE /\ sprites' = delete_one(sprites, OidOf(sprite_id))
         /\ last' =
              IF find_one(sprites, OidOf(sprite_id)) = {}   \* deleted_count == 0
              THEN Answer("delete_sprite", 404,
                               "Sprite not found", <<>>)
              ELSE Answer("delete_sprite", 200,
                               "Sprite deleted", <<>>)
         /\ UNCHANGED <<call, audio, scores, nextOid, pending>>

delete_audio(audio_id) ==
    IF validate_object_id(audio_id).ret # PyTrue
    THEN /\ last' = Answer("delete_audio", 400,
                                "Invalid audio ID format", <<>>)
         /\ UNCHANGED <<call, sprites, audio, scores, nextOid, pending>>
    ELSE /\ audio' = delete_one(audio, OidOf(audio_id))
         /\ last' =
              IF find_one(audio, OidOf(audio_id)) = {}   \* deleted_count == 0
              THEN Answer("delete_audio", 404,
                               "Audio not found", <<>>)
              ELSE Answer("delete_audio", 200,
                               "Audio deleted", <<>>)
         /\ UNCHANGED <<call, sprites, scores, nextOid, pending>>

InitAssets == call = NoCall /\ StoreInit /\ last = NoRequest

NextAssets ==
    \/ \E id \in IdInputs : get_sprite(id)
    \/ \E id \in IdInputs : get_audio(id)
    \/ \E f \in Files : upload_sprite(f)
    \/ \E f \in Files : upload_audio(f)
    \/ \E id \in IdInputs, f \in Files : update_sprite_find(id, f)
    \/ \E r \in pending : update_sprite_write(r)
    \/ \E id \in IdInputs, f \in Files : update_audio_find(id, f)
    \/ \E r \in pending : update_audio_write(r)
    \/ \E id \in IdInputs : delete_sprite(id)
    \/ \E id \in IdInputs : delete_audio(id)

SpecAssets == InitAssets /\ [][NextAssets]_vars

(***************************************************************************)
(* The score handlers.  PlayerScore (lines 83-85) is checked by the        *)
(* framework before add_score runs (422 when it fails), as are the Query   *)
(* constraints of update_score and get_scores.                             *)
(***************************************************************************)
MaxNameLen == 50
MaxLimit == 100

\* the characters of the pattern ^[a-zA-Z0-9_ ]+$
NameChars ==
    {Uppers[i] : i \in 1..Len(Uppers)} \cup {Lowers[i] : i \in 1..Len(Lowers)}
    \cup Digits \cup {"_", " "}

\* PlayerScore(player_name=name, score=score) validates
PlayerScore(name, score) ==
    /\ name.type = "str"
    /\ Len(name.val) >= 1 /\ Len(name.val) <= MaxNameLen
    /\ \A i \in 1..Len(name.val) : name.val[i] \in NameChars
    /\ score >= 0

alice_01 == PyStr(<<"a","l","i","c","e","_","0","1">>)

ScoreNames ==
    { alice_01, PyStr(evil_where_png),
      PyStr(<<"e","v","i","l","w","h","e","r","e","p","n","g">>) }

ScoreValues == {-1, 10, 20}

Limits == {0, 1, 2, 10, MaxLimit + 1}

\* the positions of the documents {"player_name": name} matches
ScoreMatches(docs, name) == {i \in 1..Len(docs) : docs[i].player_name = name}

\* a variant of update_one that sets the score of the first document
score_update_first(docs, i, score) == [docs EXCEPT ![1].score = score]

\* scores.update_one(filter, {"$set": {"score": score}}) on the match at i
score_update_one(docs, i, score) == [docs EXCEPT ![i].score = score]

\* a variant of delete_one that removes every document with the name of docs[i]
score_delete_many(docs, i) ==
    SelectSeq(docs, LAMBDA d : d.player_name # docs[i].player_name)

\* scores.delete_one(filter) on the match at i
score_delete_one(docs, i) == SubSeq(docs, 1, i - 1) \o SubSeq(docs, i + 1, Len(docs))

\* PlayerScore(**{k: v for k, v in score.items() if k != '_id'})
WithoutId(doc) == [player_name |-> doc.player_name, score |-> doc.score]

Min(a, b) == IF a <= b THEN a ELSE b

\* GET /player_scores
get_scores(limit) ==
    /\ last' =
         IF limit < 1 \/ limit > MaxLimit
         THEN Answer("get_scores", 422, "validation error", <<>>)
         ELSE LET found == SubSeq(scores, 1, Min(limit, Len(scores)))
              IN  IF \A i \in 1..Len(found) :
                        PlayerScore(found[i].player_name, found[i].score)
                  THEN Answer("get_scores", 200, "",
                              [i \in 1..Len(found) |-> WithoutId(found[i])])
                  ELSE Answer("get_scores", 500,
                              "An error occurred while retrieving player scores", <<>>)
    /\ UNCHANGED <<call, sprites, audio, scores, nextOid, pending>>

\* POST /player_score
add_score(name, score) ==
    IF ~PlayerScore(name, score)
    THEN /\ last' = Answer("add_score", 422, "validation error", <<>>)
         /\ UNCHANGED <<call, sprites, audio, scores, nextOid, pending>>
    ELSE /\ nextOid < MaxScoreDocs
         /\ scores' = Append(scores, [_id |-> GenOid(nextOid + 1),
                                      player_name |-> sanitize_input(name),
                                      score |-> score])
         /\ nextOid' = nextOid + 1
         /\ last' = Answer("add_score", 200, "Score recorded", GenOid(nextOid + 1))
         /\ UNCHANGED <<call, sprites, audio, pending>>

\* PUT /player_score/{player_name}?updated_score=
update_score(player_name, updated_score) ==
    IF updated_score < 0
    THEN /\ last' = Answer("update_score", 422, "validation error", <<>>)
         /\ UNCHANGED <<call, sprites, audio, scores, nextOid, pending>>
    ELSE LET safe_player_name == sanitize_input(player_name)
             matched == ScoreMatches(scores, safe_player_name)
         IN  IF matched = {}
             THEN /\ last' = Answer("update_score", 404, "Player not found", <<>>)
                  /\ UNCHANGED <<call, sprites, audio, scores, nextOid, pending>>
             ELSE /\ \E i \in matched :
                        scores' = score_update_one(scores, i, updated_score)
                  /\ last' = Answer("update_score", 200, "Score updated for player",
                                    safe_player_name)
                  /\ UNCHANGED <<call, sprites, audio, nextOid, pending>>

\* DELETE /player_score/{player_name}
delete_score(player_name) ==
    LET safe_player_name == sanitize_input(player_name)
        matched == ScoreMatches(scores, safe_player_name)
    IN  IF matched = {}   \* deleted_count == 0
        THEN /\ last' = Answer("delete_score", 404, "Player score not found", <<>>)
             /\ UNCHANGED <<call, sprites, audio, scores, nextOid, pending>>
        ELSE /\ \E i \in matched : scores' = score_delete_one(scores, i)
             /\ last' = Answer("delete_score", 200, "Score for player deleted",
                               safe_player_name)
             /\ UNCHANGED <<call, sprites, audio, nextOid, pending>>

InitScores == call = NoCall /\ StoreInit /\ last = NoRequest

NextScores ==
    \/ \E l \in Limits : get_scores(l)
    \/ \E n \in ScoreNames, s \in ScoreValues : add_score(n, s)
    \/ \E n \in ScoreNames, s \in ScoreValues : update_score(n, s)
    \/ \E n \in ScoreNames : delete_score(n)

SpecScores == InitScores /\ [][NextScores]_vars

(***************************************************************************)
(* Vocabulary of the properties, written independently of the helpers.     *)
(***************************************************************************)
SameLetter(c, d) ==
    \/ c = d
    \/ \E i \in 1..Len(Uppers) : {c, d} = {Uppers[i], Lowers[i]}

\* s ends with ext, letters compared without regard to case
EndsWithCI(s, ext) ==
    /\ Len(s) >= Len(ext)
    /\ \A i \in 1..Len(ext) : SameLetter(s[Len(s) - Len(ext) + i], ext[i])

ImageExts == { <<".","p","n","g">>, <<".","j","p","g">>, <<".","j","p","e","g">> }
AudioExts == { <<".","m","p","3">> }

HasExt(x, exts) == x.type = "str" /\ \E e \in exts : EndsWithCI(x.val, e)

Contains(s, p) == \E i \in 1..(Len(s) - Len(p) + 1) : SubSeq(s, i, i + Len(p) - 1) = p

OperatorTokens ==
    { <<"$">>, <<"{">>, <<"}">>, <<".">>,
      <<"$","w","h","e","r","e">>, <<"$","r","e","g","e","x">>,
      <<"$","g","t">>, <<"$","l","t">>, <<"$","g","t","e">>,
      <<"$","l","t","e">>, <<"$","n","e">>, <<"$","n","i","n">>,
      <<"$","a","n","d">>, <<"$","o","r">>, <<"$","n","o","t">>,
      <<"$","n","o","r">> }

Is24Hex(s) == Len(s) = 24 /\ \A i \in 1..Len(s) : IsHexChar(s[i])

(***************************************************************************)
(* Properties of the helpers (under SpecFn).                               *)
(***************************************************************************)

\* C1: for every string s, validate_object_id(s) returns True if and only if
\* s has exactly 24 characters and every character is a hexadecimal digit.
C1_ValidateIff24Hex ==
    (Returned("validate_object_id") /\ call.arg.type = "str")
        => /\ call.exc = "none"
           /\ (call.ret = PyTrue) <=> Is24Hex(call.arg.val)

\* C2: for every non-string input validate_object_id returns False and
\* never raises.
C2_NonStringInvalid ==
    (Returned("validate_object_id") /\ call.arg.type # "str")
        => (call.exc = "none" /\ call.ret = PyFalse)

\* C3: the output of sanitize_input on a string contains no denylist entry
\* ("$where", "$", "{", "}", ".", "$regex", ..., "$nor").
C3_NoOperatorToken ==
    (Returned("sanitize_input") /\ call.arg.type = "str")
        => /\ call.ret.type = "str"
           /\ \A p \in OperatorTokens : ~Contains(call.ret.val, p)

\* C3 witness: "$wh$ere" has been sanitized, and what is left is "where".
C3_Witness ==
    /\ Returned("sanitize_input")
    /\ call.arg = PyStr(<<"$","w","h","$","e","r","e">>)
    /\ call.ret = PyStr(<<"w","h","e","r","e">>)

\* C4: sanitize_input("evil$where.png") yields exactly "evilpng".
C4_EvilPng ==
    (Returned("sanitize_input") /\ call.arg = PyStr(evil_where_png))
        => call.ret = PyStr(<<"e","v","i","l","p","n","g">>)

\* C5: each file-type gate returns True if and only if the filename ends,
\* case-insensitively, with an extension of its allow-list (.png / .jpg /
\* .jpeg for images, .mp3 for audio), and False for an empty or None filename.
C5_FileTypeGate ==
    /\ Returned("is_valid_image_file")
          => /\ call.ret = PyBool(HasExt(call.arg, ImageExts))
             /\ Falsy(call.arg) => call.ret = PyFalse
    /\ Returned("is_valid_audio_file")
          => /\ call.ret = PyBool(HasExt(call.arg, AudioExts))
             /\ Falsy(call.arg) => call.ret = PyFalse

\* C5 witness: the image gate has accepted "a.PNG".
C5_Witness ==
    /\ Returned("is_valid_image_file")
    /\ call.arg = PyStr(<<"a",".","P","N","G">>)
    /\ call.ret = PyTrue

(***************************************************************************)
(* Properties of the asset handlers (under SpecAssets).                    *)
(***************************************************************************)
StoreUnchanged == UNCHANGED <<sprites, audio, scores>>

\* the step answers a request of handler op (every handler names itself in
\* its answer)
Answered(op) == last'.op = op

\* the inputs the handlers are to reject
BadIds == {id \in IdInputs : validate_object_id(id).ret # PyTrue}
NotImages == {f \in Files : ~is_valid_image_file(f.filename)}
NotAudio == {f \in Files : ~is_valid_audio_file(f.filename)}
BadSpriteUpdates == (BadIds \X Files) \cup (IdInputs \X NotImages)
BadAudioUpdates == (BadIds \X Files) \cup (IdInputs \X NotAudio)

\* C6: no step that answers 400 changes the sprites, audio or scores
\* collection, and no step of upload_sprite, upload_audio, update_sprite,
\* update_audio, delete_sprite or delete_audio on a malformed identifier or a
\* disallowed file type answers anything but 400.
C6_RejectedBeforeWrite ==
    [][ /\ last'.status = 400 => StoreUnchanged
        /\ last'.status # 400 =>
              /\ Answered("upload_sprite") => \A f \in NotImages : ~upload_sprite(f)
              /\ Answered("upload_audio") => \A f \in NotAudio : ~upload_audio(f)
              /\ Answered("update_sprite") =>
                    \A x \in BadSpriteUpdates : ~update_sprite_find(x[1], x[2])
              /\ Answered("update_audio") =>
                    \A x \in BadAudioUpdates : ~update_audio_find(x[1], x[2])
              /\ Answered("delete_sprite") => \A id \in BadIds : ~delete_sprite(id)
              /\ Answered("delete_audio") => \A id \in BadIds : ~delete_audio(id)
      ]_vars

\* C6 witness: update_sprite has answered 400 while the store holds a sprite
\* and an audio document.
C6_Witness ==
    /\ last.op = "update_sprite" /\ last.status = 400
    /\ sprites # {} /\ audio # {}

\* C8: every document of sprites has a filename ending, case-insensitively,
\* in .png, .jpg or .jpeg, and every document of audio one ending in .mp3.
C8_StoredFilenames ==
    /\ \A d \in sprites : HasExt(d.filename, ImageExts)
    /\ \A d \in audio : HasExt(d.filename, AudioExts)

\* C8 witness: update_sprite has replaced a sprite's file by "b.jpg" while an
\* audio document is stored.
C8_Witness ==
    /\ last.op = "update_sprite" /\ last.status = 200
    /\ \E d \in sprites : d.filename = PyStr(<<"b",".","j","p","g">>)
    /\ audio # {}

\* C10: whenever update_sprite (update_audio) answers "Sprite updated"
\* ("Audio updated"), its update_one replaced the filename and content of an
\* existing document with that id.
C10_UpdatedMeansReplaced ==
    [][ \A r \in pending :
          /\ update_sprite_write(r) =>
                \E d \in sprites' : /\ d._id = OidOf(r.id)
                                    /\ d.filename = r.file.filename
                                    /\ d.content = r.file.content
          /\ update_audio_write(r) =>
                \E d \in audio' : /\ d._id = OidOf(r.id)
                                  /\ d.filename = r.file.filename
                                  /\ d.content = r.file.content
      ]_vars

(***************************************************************************)
(* Properties of the score handlers (under SpecScores).                    *)
(***************************************************************************)
\* the documents of docs whose player_name is name
Named(docs, name) == {i \in 1..Len(docs) : docs[i].player_name = name}

ValidNames == {n \in ScoreNames : PlayerScore(n, 0)}

\* docs without its i-th document
Without(docs, i) ==
    [j \in 1..(Len(docs) - 1) |-> IF j < i THEN docs[j] ELSE docs[j + 1]]

\* C7: for a schema-valid name n, add_score(n, s) stores a document with the
\* name unchanged and score s; update_score(n, v) succeeds when a document
\* named n exists, and then a document named n has score v (every one, when n
\* has one document), and answers 404 when none exists; delete_score(n)
\* succeeds when one exists and leaves one fewer (none, when n had one), and
\* answers 404 when none exists; get_scores reads back the names and scores
\* of the first `limit` documents as stored.
C7_ScoreLifecycle ==
    [][ /\ \A n \in ValidNames, s \in ScoreValues :
              (Answered("add_score") /\ s >= 0 /\ add_score(n, s)) =>
                  /\ last'.status = 200
                  /\ Len(scores') = Len(scores) + 1
                  /\ SubSeq(scores', 1, Len(scores)) = scores
                  /\ WithoutId(scores'[Len(scores')]) = [player_name |-> n, score |-> s]
        /\ \A n \in ValidNames, v \in ScoreValues :
              (Answered("update_score") /\ v >= 0 /\ update_score(n, v)) =>
                  IF Named(scores, n) = {}
                  THEN last'.status = 404 /\ scores' = scores
                  ELSE /\ last'.status = 200
                       /\ Named(scores', n) = Named(scores, n)
                       /\ \E i \in Named(scores', n) : scores'[i].score = v
                       /\ Cardinality(Named(scores, n)) = 1 =>
                             \A i \in Named(scores', n) : scores'[i].score = v
        /\ \A n \in ValidNames :
              (Answered("delete_score") /\ delete_score(n)) =>
                  IF Named(scores, n) = {}
                  THEN last'.status = 404 /\ scores' = scores
                  ELSE /\ last'.status = 200
                       /\ Cardinality(Named(scores', n)) = Cardinality(Named(scores, n)) - 1
        /\ \A l \in Limits :
              (Answered("get_scores") /\ l >= 1 /\ l <= 100 /\ get_scores(l)) =>
                  /\ last'.status = 200
                  /\ Len(last'.body) = Min(l, Len(scores))
                  /\ \A i \in 1..Len(last'.body) :
                        last'.body[i] = [player_name |-> scores[i].player_name,
                                         score |-> scores[i].score]
      ]_vars

\* C7 witness: "alice_01" was added, and delete_score has removed its last
\* document: none is left.
C7_Witness ==
    /\ last.op = "delete_score" /\ last.status = 200 /\ last.body = alice_01
    /\ nextOid >= 1
    /\ Named(scores, alice_01) = {}

\* C9: one update_score changes the score of at most one document and nothing
\* else; one delete_score removes at most one document, one that has the
\* name, and leaves the others as they were, in their order.
C9_AtMostOne ==
    [][ /\ \A n \in ScoreNames, v \in ScoreValues :
              (Answered("update_score") /\ update_score(n, v)) =>
                  /\ Len(scores') = Len(scores)
                  /\ Cardinality({i \in 1..Len(scores) : scores'[i] # scores[i]}) <= 1
                  /\ \A i \in 1..Len(scores) :
                        /\ scores'[i]._id = scores[i]._id
                        /\ scores'[i].player_name = scores[i].player_name
                        /\ scores'[i].score # scores[i].score
                              => scores[i].player_name = sanitize_input(n)
        /\ \A n \in ScoreNames :
              (Answered("delete_score") /\ delete_score(n)) =>
                  LET safe == sanitize_input(n)
                  IN  \/ scores' = scores /\ last'.status = 404
                      \/ /\ last'.status = 200
                         /\ \E i \in Named(scores, safe) : scores' = Without(scores, i)
                         /\ Cardinality(Named(scores', safe))
                               = Cardinality(Named(scores, safe)) - 1
      ]_vars

\* C9 witness: delete_score has removed one document of a name that another
\* stored document still has.
C9_Witness ==
    /\ last.op = "delete_score" /\ last.status = 200
    /\ Named(scores, last.body) # {}

====
